---- MODULE Spec2Model ----
(***************************************************************************)
(* Model of timer_example.c: the TIMER0 driver (start, stop), the TIMER0   *)
(* interrupt handler and the peripheral they program.                      *)
(*                                                                         *)
(* The thread of control executes start and stop one statement at a time   *)
(* (pc names the statement about to be executed).  The peripheral counts   *)
(* on its own (Tick) and the interrupt handler preempts the thread as soon *)
(* as the interrupt is asserted: while it is asserted neither the thread   *)
(* nor the timer takes a step.                                             *)
(*                                                                         *)
(* The 32-bit quantities of the program (unsigned int, the 32-bit timer    *)
(* count, CC[0]) are scaled to WordBits bits.                              *)
(*                                                                         *)
(* Spec is the driver used freely: after main's pin configuration, any     *)
(* sequence of start, stop and handler calls.  MainSpec is the program as  *)
(* written: main calls start(509, TIMER0_IRQHandler) and then loops over   *)
(* WFE, SEV, WFE.  FairMainSpec adds that the processor keeps executing    *)
(* and takes an asserted interrupt.                                        *)
(***************************************************************************)
EXTENDS Integers, Sequences, FiniteSets, TLC

\* Width, in bits, of the scaled "32-bit" quantities.
WordBits == 2

\* Number of counter reports after which the timer raises no further event.
MaxEvents == 3

RECURSIVE Pow2(_)
Pow2(n) == IF n = 0 THEN 1 ELSE 2 * Pow2(n - 1)

\* Values of an unsigned int (period, count, CC[0], the timer count).
UInt == 0 .. (Pow2(WordBits) - 1)

\* printf("%d", u) of an unsigned u: the bits of u read as a signed int.
AsSigned(u) == IF u >= Pow2(WordBits - 1) THEN u - Pow2(WordBits) ELSE u

\* Number of counting bits BITMODE selects (16Bit is the narrower mode).
BitWidth(bm) == IF bm = "32Bit" THEN WordBits ELSE WordBits - 1

\* Bits of INTENSET: the one the driver uses and one standing for the others.
IntenBits == {"COMPARE0", "COMPARE1"}

NoCall == [op |-> "none", period |-> 0]

VARIABLES
    pc,               \* statement the thread of control executes next
    period,           \* start's parameter
    MODE,             \* NRF_TIMER0->MODE
    PRESCALER,        \* NRF_TIMER0->PRESCALER
    BITMODE,          \* NRF_TIMER0->BITMODE
    CC0,              \* NRF_TIMER0->CC[0]
    INTEN,            \* interrupt-enable bits, as read from INTENSET
    EVENTS_COMPARE0,  \* NRF_TIMER0->EVENTS_COMPARE[0]
    running,          \* the timer has been started and not stopped
    counter,          \* the timer's internal count
    nvic_enabled,     \* the controller line enabled by NVIC_EnableIRQ
    count,            \* TIMER0_IRQHandler's static count
    reported,         \* the values printed so far
    pin_dir,          \* direction of GPIO_TOGGLE_PIN
    pin_out,          \* output level of GPIO_TOGGLE_PIN
    lastCall,         \* the last driver call that returned
    prevCall,         \* the driver call that returned before it
    entry,            \* the state the current or last driver call was made in
    sinceMatch,       \* ticks since the last compare match of this run, or -1
    ret,              \* where the driver call in progress returns to
    event_reg,        \* the processor's event register (WFE, SEV)
    handlerCalls,     \* number of handler invocations so far, modulo 2
    iterated          \* the main loop completed an iteration since the last
                      \* interrupt

vars == << pc, period, MODE, PRESCALER, BITMODE, CC0, INTEN, EVENTS_COMPARE0,
           running, counter, nvic_enabled, count, reported, pin_dir, pin_out,
           lastCall, prevCall, entry, sinceMatch, ret, event_reg,
           handlerCalls, iterated >>

periph == << MODE, PRESCALER, BITMODE, CC0, INTEN, EVENTS_COMPARE0, running,
             counter >>
handlerState == << count, reported >>
gpio == << pin_dir, pin_out >>
history == << lastCall, prevCall, entry >>
cpu == << ret, event_reg, handlerCalls, iterated >>

\* What a driver call finds on entry.
Snapshot == [MODE |-> MODE, PRESCALER |-> PRESCALER, BITMODE |-> BITMODE,
             CC0 |-> CC0, running |-> running,
             INTEN0 |-> "COMPARE0" \in INTEN, nvic_enabled |-> nvic_enabled]

\* The period main passes to start.
MainPeriod == 509

\* The labels of main's loop.
InLoop == pc \in {"main_WFE1", "main_SEV", "main_WFE2"}

\* The peripheral is in whatever state earlier code left it in ("junk or
\* previous writings"); the core, the pin and the program's data are at
\* reset, where the event register may hold either value.
Init ==
    /\ pc = "main_cfg_output"
    /\ period = 0
    /\ MODE \in {"Timer", "Counter"}
    /\ PRESCALER \in {0, 4}
    /\ BITMODE \in {"16Bit", "32Bit"}
    /\ CC0 \in UInt
    /\ INTEN \in SUBSET {"COMPARE0"}
    /\ EVENTS_COMPARE0 \in BOOLEAN
    /\ running \in BOOLEAN
    /\ counter \in UInt
    /\ nvic_enabled = FALSE
    /\ count = 0
    /\ reported = << >>
    /\ pin_dir = "input"
    /\ pin_out = 0
    /\ lastCall = NoCall
    /\ prevCall = NoCall
    /\ entry = Snapshot
    /\ sinceMatch = -1
    /\ ret = "idle"
    /\ event_reg \in BOOLEAN
    /\ handlerCalls = 0
    /\ iterated = TRUE

\* The interrupt is asserted: event pending, enabled at the peripheral and
\* at the controller.
IRQ == EVENTS_COMPARE0 /\ "COMPARE0" \in INTEN /\ nvic_enabled

\* The thread of control executes the statement at label l and goes to m.
Step(l, m) == pc = l /\ ~IRQ /\ pc' = m

----------------------------------------------------------------------------
\* main, line 91: nrf_gpio_cfg_output(GPIO_TOGGLE_PIN)
main_cfg_output ==
    /\ Step("main_cfg_output", "idle")
    /\ UNCHANGED cpu
    /\ pin_dir' = "output"
    /\ UNCHANGED << period, periph, nvic_enabled, handlerState, pin_out,
                    history, sinceMatch >>

\* A call of start(P, TIMER0_IRQHandler).
CallStart ==
    /\ \E P \in UInt : period' = P
    /\ Step("idle", "start_TASKS_STOP")
    /\ ret' = "idle"
    /\ UNCHANGED << event_reg, handlerCalls, iterated >>
    /\ entry' = Snapshot
    /\ UNCHANGED << periph, nvic_enabled, handlerState, gpio, lastCall,
                    prevCall, sinceMatch >>

\* A call of stop().
CallStop ==
    /\ Step("idle", "stop_TASKS_STOP")
    /\ ret' = "idle"
    /\ UNCHANGED << event_reg, handlerCalls, iterated >>
    /\ entry' = Snapshot
    /\ UNCHANGED << period, periph, nvic_enabled, handlerState, gpio, lastCall,
                    prevCall, sinceMatch >>

----------------------------------------------------------------------------
start_TASKS_STOP_skipped ==
    /\ Step("start_TASKS_STOP", "start_TASKS_CLEAR")
    /\ UNCHANGED cpu
    /\ sinceMatch' = -1
    /\ UNCHANGED << period, periph, nvic_enabled, handlerState, gpio, history >>

\* start, line 36: NRF_TIMER0->TASKS_STOP = 1
start_TASKS_STOP ==
    /\ Step("start_TASKS_STOP", "start_TASKS_CLEAR")
    /\ UNCHANGED cpu
    /\ running' = FALSE
    /\ sinceMatch' = -1
    /\ UNCHANGED << period, MODE, PRESCALER, BITMODE, CC0, INTEN,
                    EVENTS_COMPARE0, counter, nvic_enabled, handlerState,
                    gpio, history >>

start_TASKS_CLEAR_skipped ==
    /\ Step("start_TASKS_CLEAR", "start_MODE")
    /\ UNCHANGED cpu
    /\ UNCHANGED << period, periph, nvic_enabled, handlerState, gpio, history,
                    sinceMatch >>

\* start, line 37: NRF_TIMER0->TASKS_CLEAR = 1
start_TASKS_CLEAR ==
    /\ Step("start_TASKS_CLEAR", "start_MODE")
    /\ UNCHANGED cpu
    /\ counter' = 0
    /\ UNCHANGED << period, MODE, PRESCALER, BITMODE, CC0, INTEN,
                    EVENTS_COMPARE0, running, nvic_enabled, handlerState,
                    gpio, history, sinceMatch >>

\* start, line 38: NRF_TIMER0->MODE = TIMER_MODE_MODE_Timer
start_MODE ==
    /\ Step("start_MODE", "start_PRESCALER")
    /\ UNCHANGED cpu
    /\ MODE' = "Timer"
    /\ UNCHANGED << period, PRESCALER, BITMODE, CC0, INTEN, EVENTS_COMPARE0,
                    running, counter, nvic_enabled, handlerState, gpio,
                    history, sinceMatch >>

\* start, line 45: NRF_TIMER0->PRESCALER = 4
start_PRESCALER ==
    /\ Step("start_PRESCALER", "start_BITMODE")
    /\ UNCHANGED cpu
    /\ PRESCALER' = 4
    /\ UNCHANGED << period, MODE, BITMODE, CC0, INTEN, EVENTS_COMPARE0,
                    running, counter, nvic_enabled, handlerState, gpio,
                    history, sinceMatch >>

start_BITMODE_skipped ==
    /\ Step("start_BITMODE", "start_CC0")
    /\ UNCHANGED cpu
    /\ UNCHANGED << period, periph, nvic_enabled, handlerState, gpio, history,
                    sinceMatch >>

\* start, line 48: NRF_TIMER0->BITMODE = TIMER_BITMODE_BITMODE_32Bit
start_BITMODE ==
    /\ Step("start_BITMODE", "start_CC0")
    /\ UNCHANGED cpu
    /\ BITMODE' = "32Bit"
    /\ UNCHANGED << period, MODE, PRESCALER, CC0, INTEN, EVENTS_COMPARE0,
                    running, counter, nvic_enabled, handlerState, gpio,
                    history, sinceMatch >>

start_CC0_off_by_one ==
    /\ Step("start_CC0", "start_INTENSET")
    /\ UNCHANGED cpu
    /\ CC0' = (period + Pow2(WordBits) - 1) % Pow2(WordBits)
    /\ UNCHANGED << period, MODE, PRESCALER, BITMODE, INTEN, EVENTS_COMPARE0,
                    running, counter, nvic_enabled, handlerState, gpio,
                    history, sinceMatch >>

start_CC0_rejects_zero ==
    /\ Step("start_CC0", "start_INTENSET")
    /\ UNCHANGED cpu
    /\ CC0' = IF period = 0 THEN CC0 ELSE period
    /\ UNCHANGED << period, MODE, PRESCALER, BITMODE, INTEN, EVENTS_COMPARE0,
                    running, counter, nvic_enabled, handlerState, gpio,
                    history, sinceMatch >>

\* start, line 53: NRF_TIMER0->CC[0] = period
start_CC0 ==
    /\ Step("start_CC0", "start_INTENSET")
    /\ UNCHANGED cpu
    /\ CC0' = period
    /\ UNCHANGED << period, MODE, PRESCALER, BITMODE, INTEN, EVENTS_COMPARE0,
                    running, counter, nvic_enabled, handlerState, gpio,
                    history, sinceMatch >>

start_INTENSET_skipped ==
    /\ Step("start_INTENSET", "start_NVIC_EnableIRQ")
    /\ UNCHANGED cpu
    /\ UNCHANGED << period, periph, nvic_enabled, handlerState, gpio, history,
                    sinceMatch >>

\* start, line 56: NRF_TIMER0->INTENSET = COMPARE0 bit (write 1 to set)
start_INTENSET ==
    /\ Step("start_INTENSET", "start_NVIC_EnableIRQ")
    /\ UNCHANGED cpu
    /\ INTEN' = INTEN \cup {"COMPARE0"}
    /\ UNCHANGED << period, MODE, PRESCALER, BITMODE, CC0, EVENTS_COMPARE0,
                    running, counter, nvic_enabled, handlerState, gpio,
                    history, sinceMatch >>

\* start, line 57: NVIC_EnableIRQ(handler)
start_NVIC_EnableIRQ ==
    /\ Step("start_NVIC_EnableIRQ", "start_TASKS_START")
    /\ UNCHANGED cpu
    /\ nvic_enabled' = TRUE
    /\ UNCHANGED << period, periph, handlerState, gpio, history, sinceMatch >>

\* start, line 60: NRF_TIMER0->TASKS_START = 1, and the return
start_TASKS_START ==
    /\ Step("start_TASKS_START", ret)
    /\ UNCHANGED cpu
    /\ running' = TRUE
    /\ lastCall' = [op |-> "start", period |-> period]
    /\ prevCall' = lastCall
    /\ UNCHANGED entry
    /\ UNCHANGED << period, MODE, PRESCALER, BITMODE, CC0, INTEN,
                    EVENTS_COMPARE0, counter, nvic_enabled, handlerState,
                    gpio, sinceMatch >>

start ==
    \/ start_TASKS_STOP
    \/ start_TASKS_CLEAR
    \/ start_MODE
    \/ start_PRESCALER
    \/ start_BITMODE
    \/ start_CC0
    \/ start_INTENSET
    \/ start_NVIC_EnableIRQ
    \/ start_TASKS_START

----------------------------------------------------------------------------
stop_TASKS_STOP_skipped ==
    /\ Step("stop_TASKS_STOP", "stop_TASKS_CLEAR")
    /\ UNCHANGED cpu
    /\ sinceMatch' = -1
    /\ UNCHANGED << period, periph, nvic_enabled, handlerState, gpio, history >>

\* stop, line 72: NRF_TIMER0->TASKS_STOP = 1
stop_TASKS_STOP ==
    /\ Step("stop_TASKS_STOP", "stop_TASKS_CLEAR")
    /\ UNCHANGED cpu
    /\ running' = FALSE
    /\ sinceMatch' = -1
    /\ UNCHANGED << period, MODE, PRESCALER, BITMODE, CC0, INTEN,
                    EVENTS_COMPARE0, counter, nvic_enabled, handlerState,
                    gpio, history >>

stop_TASKS_CLEAR_resets_count ==
    /\ Step("stop_TASKS_CLEAR", "stop_CC0")
    /\ UNCHANGED cpu
    /\ counter' = 0
    /\ count' = 0
    /\ UNCHANGED << period, MODE, PRESCALER, BITMODE, CC0, INTEN,
                    EVENTS_COMPARE0, running, nvic_enabled, reported,
                    gpio, history, sinceMatch >>

\* stop, line 73: NRF_TIMER0->TASKS_CLEAR = 1
stop_TASKS_CLEAR ==
    /\ Step("stop_TASKS_CLEAR", "stop_CC0")
    /\ UNCHANGED cpu
    /\ counter' = 0
    /\ UNCHANGED << period, MODE, PRESCALER, BITMODE, CC0, INTEN,
                    EVENTS_COMPARE0, running, nvic_enabled, handlerState,
                    gpio, history, sinceMatch >>

stop_CC0_skipped ==
    /\ Step("stop_CC0", "stop_INTENSET")
    /\ UNCHANGED cpu
    /\ UNCHANGED << period, periph, nvic_enabled, handlerState, gpio, history,
                    sinceMatch >>

\* stop, line 76: NRF_TIMER0->CC[0] = 0
stop_CC0 ==
    /\ Step("stop_CC0", "stop_INTENSET")
    /\ UNCHANGED cpu
    /\ CC0' = 0
    /\ UNCHANGED << period, MODE, PRESCALER, BITMODE, INTEN, EVENTS_COMPARE0,
                    running, counter, nvic_enabled, handlerState, gpio,
                    history, sinceMatch >>

\* What line 77 writes to INTENSET.  "~=" is no operator of C; the statement
\* is either the assignment of ~mask or the read-modify-write "&= ~mask".
\* Neither value has the COMPARE0 bit set.
stop_INTENSET_written ==
    { IntenBits \ {"COMPARE0"}, INTEN \ {"COMPARE0"} }

stop_INTENSET_disables_line ==
    /\ Step("stop_INTENSET", ret)
    /\ UNCHANGED cpu
    /\ \E w \in stop_INTENSET_written : INTEN' = INTEN \cup w
    /\ nvic_enabled' = FALSE
    /\ lastCall' = [op |-> "stop", period |-> 0]
    /\ prevCall' = lastCall
    /\ UNCHANGED entry
    /\ UNCHANGED << period, MODE, PRESCALER, BITMODE, CC0, EVENTS_COMPARE0,
                    running, counter, handlerState, gpio, sinceMatch >>

\* stop, line 77: NRF_TIMER0->INTENSET ~= COMPARE0 bit, and the return.
\* INTENSET is write-1-to-set: the bits written as 1 are set, the bits
\* written as 0 keep their value.
stop_INTENSET ==
    /\ Step("stop_INTENSET", ret)
    /\ UNCHANGED cpu
    /\ \E w \in stop_INTENSET_written : INTEN' = INTEN \cup w
    /\ lastCall' = [op |-> "stop", period |-> 0]
    /\ prevCall' = lastCall
    /\ UNCHANGED entry
    /\ UNCHANGED << period, MODE, PRESCALER, BITMODE, CC0, EVENTS_COMPARE0,
                    running, counter, nvic_enabled, handlerState, gpio,
                    sinceMatch >>

stop ==
    \/ stop_TASKS_STOP
    \/ stop_TASKS_CLEAR
    \/ stop_CC0
    \/ stop_INTENSET

----------------------------------------------------------------------------
TIMER0_IRQHandler_ignores_enable ==
    /\ IF EVENTS_COMPARE0
       THEN /\ EVENTS_COMPARE0' = FALSE
            /\ reported' = Append(reported, AsSigned(count))
            /\ count' = (count + 1) % Pow2(WordBits)
       ELSE UNCHANGED << EVENTS_COMPARE0, reported, count >>
    /\ UNCHANGED << pc, period, MODE, PRESCALER, BITMODE, CC0, INTEN, running,
                    counter, nvic_enabled, gpio, history, sinceMatch >>

TIMER0_IRQHandler_rewrites_CC0 ==
    /\ IF EVENTS_COMPARE0 /\ "COMPARE0" \in INTEN
       THEN /\ EVENTS_COMPARE0' = FALSE
            /\ reported' = Append(reported, AsSigned(count))
            /\ count' = (count + 1) % Pow2(WordBits)
            /\ CC0' = (CC0 + 1) % Pow2(WordBits)
       ELSE UNCHANGED << EVENTS_COMPARE0, reported, count, CC0 >>
    /\ UNCHANGED << pc, period, MODE, PRESCALER, BITMODE, INTEN, running,
                    counter, nvic_enabled, gpio, history, sinceMatch >>

TIMER0_IRQHandler_no_clear ==
    /\ IF EVENTS_COMPARE0 /\ "COMPARE0" \in INTEN
       THEN /\ Len(reported) <= MaxEvents
            /\ reported' = Append(reported, AsSigned(count))
            /\ count' = (count + 1) % Pow2(WordBits)
            /\ UNCHANGED EVENTS_COMPARE0
       ELSE UNCHANGED << EVENTS_COMPARE0, reported, count >>
    /\ UNCHANGED << pc, period, MODE, PRESCALER, BITMODE, CC0, INTEN, running,
                    counter, nvic_enabled, gpio, history, sinceMatch >>

TIMER0_IRQHandler_no_increment ==
    /\ IF EVENTS_COMPARE0 /\ "COMPARE0" \in INTEN
       THEN /\ EVENTS_COMPARE0' = FALSE
            /\ reported' = Append(reported, AsSigned(count))
            /\ UNCHANGED count
       ELSE UNCHANGED << EVENTS_COMPARE0, reported, count >>
    /\ UNCHANGED << pc, period, MODE, PRESCALER, BITMODE, CC0, INTEN, running,
                    counter, nvic_enabled, gpio, history, sinceMatch >>

\* TIMER0_IRQHandler, lines 82-88: one invocation, however it was entered.
TIMER0_IRQHandler ==
    /\ IF EVENTS_COMPARE0 /\ "COMPARE0" \in INTEN
       THEN /\ EVENTS_COMPARE0' = FALSE
            /\ reported' = Append(reported, AsSigned(count))
            /\ count' = (count + 1) % Pow2(WordBits)
       ELSE UNCHANGED << EVENTS_COMPARE0, reported, count >>
    /\ UNCHANGED << pc, period, MODE, PRESCALER, BITMODE, CC0, INTEN, running,
                    counter, nvic_enabled, gpio, history, sinceMatch >>

\* The controller enters the handler because the interrupt is asserted.
\* Exception entry and return set the event register.
Interrupt ==
    /\ IRQ
    /\ TIMER0_IRQHandler
    /\ event_reg' = TRUE
    /\ handlerCalls' = 1 - handlerCalls
    /\ iterated' = FALSE
    /\ UNCHANGED ret

\* The handler is called as the ordinary function it is, between driver
\* calls, with no interrupt asserted.
CallHandler ==
    /\ pc = "idle"
    /\ ~IRQ
    /\ TIMER0_IRQHandler
    /\ handlerCalls' = 1 - handlerCalls
    /\ UNCHANGED << ret, event_reg, iterated >>

----------------------------------------------------------------------------
\* The count after one more tick, in the width BITMODE selects.
NextCount == (counter + 1) % Pow2(BitWidth(BITMODE))

\* The count reached equals CC[0] (compared in the counting width).
Match(c) == c = CC0 % Pow2(BitWidth(BITMODE))

\* One tick of the running timer in timer mode: the count increments and
\* wraps at its width; reaching CC[0] raises EVENTS_COMPARE[0].  Nothing
\* clears the count on a match.
Tick ==
    /\ running
    /\ MODE = "Timer"
    /\ ~IRQ
    /\ Len(reported) < MaxEvents
    /\ UNCHANGED cpu
    /\ counter' = NextCount
    /\ EVENTS_COMPARE0' = (EVENTS_COMPARE0 \/ Match(NextCount))
    /\ sinceMatch' = IF Match(NextCount) THEN 0
                     ELSE IF sinceMatch = -1 THEN -1
                     ELSE sinceMatch + 1
    /\ UNCHANGED << pc, period, MODE, PRESCALER, BITMODE, CC0, INTEN, running,
                    nvic_enabled, handlerState, gpio, history >>

----------------------------------------------------------------------------
Next ==
    \/ main_cfg_output
    \/ CallStart
    \/ CallStop
    \/ start
    \/ stop
    \/ Interrupt
    \/ CallHandler
    \/ Tick

Spec == Init /\ [][Next]_vars

----------------------------------------------------------------------------
\* main, line 92: start(509, TIMER0_IRQHandler)
main_start ==
    /\ Step("idle", "start_TASKS_STOP")
    /\ period' = MainPeriod
    /\ ret' = "main_WFE1"
    /\ entry' = Snapshot
    /\ UNCHANGED << periph, nvic_enabled, handlerState, gpio, lastCall,
                    prevCall, sinceMatch, event_reg, handlerCalls, iterated >>

\* __WFE(): with the event register set, clear it and go on; with it clear,
\* the processor sleeps until an event sets it.
WFE(l, m) ==
    /\ Step(l, m)
    /\ event_reg
    /\ event_reg' = FALSE

main_SEV_skipped ==
    /\ Step("main_SEV", "main_WFE2")
    /\ UNCHANGED << period, periph, nvic_enabled, handlerState, gpio, history,
                    sinceMatch, cpu >>

\* main, line 96: __WFE()
main_WFE1 ==
    /\ WFE("main_WFE1", "main_SEV")
    /\ UNCHANGED << period, periph, nvic_enabled, handlerState, gpio, history,
                    sinceMatch, ret, handlerCalls, iterated >>

\* main, line 98: __SEV()
main_SEV ==
    /\ Step("main_SEV", "main_WFE2")
    /\ event_reg' = TRUE
    /\ UNCHANGED << period, periph, nvic_enabled, handlerState, gpio, history,
                    sinceMatch, ret, handlerCalls, iterated >>

\* main, line 99: __WFE(), and the branch back to line 96
main_WFE2 ==
    /\ WFE("main_WFE2", "main_WFE1")
    /\ iterated' = TRUE
    /\ UNCHANGED << period, periph, nvic_enabled, handlerState, gpio, history,
                    sinceMatch, ret, handlerCalls >>

\* The thread of control of the program: main and what it calls.
main ==
    \/ main_cfg_output
    \/ main_start
    \/ start
    \/ main_WFE1
    \/ main_SEV
    \/ main_WFE2

\* The whole program: main, the timer and the interrupt.
MainNext ==
    \/ main
    \/ Interrupt
    \/ Tick

MainSpec == Init /\ [][MainNext]_vars

\* The processor keeps executing instructions, and takes an asserted
\* interrupt.
FairMainSpec == MainSpec /\ WF_vars(main) /\ WF_vars(Interrupt)

----------------------------------------------------------------------------
\* A driver call has returned and no other is in progress.
Returned(op) == pc = "idle" /\ lastCall.op = op

\* C1: for every period P in [1, 2^WordBits - 1] and from any prior
\* peripheral state, once start(P, h) has returned CC[0] equals P and the
\* timer is running.
C1_StartSetsCompareAndRuns ==
    (Returned("start") /\ lastCall.period >= 1)
        => (CC0 = lastCall.period /\ running)

\* start(largest period) has returned, from a state in which the timer was
\* stopped and CC[0] held another value.
C1_Witness ==
    /\ Returned("start")
    /\ lastCall.period = Pow2(WordBits) - 1
    /\ CC0 = lastCall.period
    /\ running
    /\ ~entry.running
    /\ entry.CC0 # lastCall.period

\* C2: after start(P, h), any two consecutive compare-match events of the
\* run are separated by exactly P ticks of the timer.
C2_EventsEveryPeriodTicks ==
    [][ (lastCall.op = "start" /\ sinceMatch >= 0 /\ sinceMatch' = 0
         /\ counter' # counter)
            => sinceMatch + 1 = lastCall.period ]_vars

\* The value printf("%d") shows for the k-th report when the counter has
\* wrapped modulo 2^WordBits and is read as a signed int.
C3_Printed(k) ==
    LET u == (k - 1) % Pow2(WordBits)
    IN  IF 2 * u >= Pow2(WordBits) THEN u - Pow2(WordBits) ELSE u

C4_StopClearsCompareAndHalts ==
    Returned("stop") => (CC0 = 0 /\ ~running)

\* stop() has returned, having been called on a running timer whose CC[0]
\* was not 0.
C4_Witness ==
    /\ Returned("stop")
    /\ entry.running
    /\ entry.CC0 # 0
    /\ CC0 = 0
    /\ ~running

\* C5: once stop() has returned, the COMPARE0 interrupt-enable bit reads as
\* cleared, whatever its value before the call.
C5_StopClearsInterruptEnable ==
    Returned("stop") => "COMPARE0" \notin INTEN

\* C6: once start(P, h) has returned, the mode is timer, the prescaler is 4
\* and the bit-width is 32 bits, whatever P and whatever these registers
\* held before the call.
C6_StartFixesConfiguration ==
    Returned("start")
        => (MODE = "Timer" /\ PRESCALER = 4 /\ BITMODE = "32Bit")

\* start has returned, from counter mode, prescaler 0 and 16-bit width.
C6_Witness ==
    /\ Returned("start")
    /\ entry.MODE = "Counter"
    /\ entry.PRESCALER = 0
    /\ entry.BITMODE = "16Bit"
    /\ MODE = "Timer"
    /\ PRESCALER = 4
    /\ BITMODE = "32Bit"

\* The state of the peripheral when a single start(P, h) returns.
C7_AfterSingleStart(P) ==
    /\ CC0' = P
    /\ running'
    /\ MODE' = "Timer"
    /\ PRESCALER' = 4
    /\ BITMODE' = "32Bit"
    /\ counter' = 0
    /\ ~EVENTS_COMPARE0'
    /\ "COMPARE0" \in INTEN'
    /\ nvic_enabled'

\* C7: when start(P2, h) returns and the call before it was start(P1, h)
\* with P1 # P2, the peripheral is in the state a single start(P2, h) leaves:
\* CC[0] = P2, running, the fixed mode, prescaler and bit-width, the count
\* restarted from zero and no compare-match event pending.
C7_SecondStartOverrides ==
    [][ (pc = "start_TASKS_START" /\ pc' = "idle"
         /\ lastCall.op = "start" /\ lastCall.period # period)
            => C7_AfterSingleStart(period) ]_vars

\* start(P2, h) has returned after start(P1, h), P1 # P2, whose run had
\* an event handled; the second call found the timer running.
C7_Witness ==
    /\ Returned("start")
    /\ prevCall.op = "start"
    /\ prevCall.period # lastCall.period
    /\ entry.running
    /\ entry.CC0 = prevCall.period
    /\ Len(reported) >= 1
    /\ CC0 = lastCall.period
    /\ counter = 0

\* C8 (as amended): between driver calls, CC[0] holds P when the last call
\* to return was start(P, h) and 0 when it was stop(); so it is zero after
\* stop() and until the next start, but also after start(0, h).
C8_CompareFollowsLastCall ==
    pc = "idle"
        => /\ lastCall.op = "start" => CC0 = lastCall.period
           /\ lastCall.op = "stop" => CC0 = 0

\* stop() has returned after start(P, h), P # 0, and CC[0] reads 0.
C8_Witness ==
    /\ Returned("stop")
    /\ prevCall.op = "start"
    /\ prevCall.period # 0
    /\ entry.CC0 = prevCall.period
    /\ CC0 = 0

\* C8 (as stated): between driver calls, CC[0] holds the last period passed
\* to start, and it is zero if and only if stop has been called and start
\* has not been called since.
C8_CompareZeroIffStopped ==
    pc = "idle"
        => /\ lastCall.op = "start" => CC0 = lastCall.period
           /\ CC0 = 0 <=> lastCall.op = "stop"

\* C9: every handled compare-match event changes the output level of the
\* pin that main configured as an output.
C9_HandlerTogglesPin ==
    [][ (pin_dir = "output" /\ Len(reported') = Len(reported) + 1)
            => pin_out' # pin_out ]_vars

----------------------------------------------------------------------------
\* A step that is one invocation of the handler.
HandlerInvoked == handlerCalls' # handlerCalls

\* C11: an invocation of the handler that finds the event flag and the
\* COMPARE0 enable bit both set clears the flag, reports the counter and
\* increments it once; one that finds either clear changes nothing (flag,
\* counter, the peripheral, the pin) and reports nothing.
C11_HandlerActsOnlyOnEnabledEvent ==
    [][ HandlerInvoked
          => IF EVENTS_COMPARE0 /\ "COMPARE0" \in INTEN
             THEN /\ ~EVENTS_COMPARE0'
                  /\ reported' = Append(reported, C3_Printed(Len(reported) + 1))
                  /\ count' = (count + 1) % Pow2(WordBits)
             ELSE UNCHANGED << EVENTS_COMPARE0, count, reported, periph,
                               gpio, nvic_enabled >> ]_vars

\* The handler has been invoked once with the event flag set and the enable
\* bit clear, and nothing was cleared or reported.
C11_Witness ==
    /\ handlerCalls = 1
    /\ EVENTS_COMPARE0
    /\ "COMPARE0" \notin INTEN
    /\ reported = << >>
    /\ count = 0

\* C12: the fired-event counter is written only by the handler, which adds
\* one to it; start, stop, the timer and the main loop leave it and the
\* reports unchanged, and nothing resets it.
C12_OnlyHandlerWritesCount ==
    [][ (count' # count \/ reported' # reported)
          => /\ HandlerInvoked
             /\ count' = (count + 1) % Pow2(WordBits)
             /\ Len(reported') = Len(reported) + 1 ]_vars

\* stop() has returned after a start whose run had one event handled, and
\* the counter still reads 1.
C12_Witness ==
    /\ Returned("stop")
    /\ prevCall.op = "start"
    /\ entry.running
    /\ count = 1
    /\ reported = << 0 >>

\* C13: an invocation of the handler leaves CC[0], mode, prescaler,
\* bit-width, the interrupt-enable bits and the running state unchanged:
\* after start(P, h) and any number of handled events CC[0] still reads P.
C13_HandlerKeepsConfiguration ==
    /\ [][ HandlerInvoked
             => UNCHANGED << CC0, MODE, PRESCALER, BITMODE, INTEN, running >>
       ]_vars
    /\ [](Returned("start") /\ Len(reported) >= 1 => CC0 = lastCall.period)

\* start(P, h), P # 0, was the only driver call, three events have been
\* handled and CC[0] still reads P.
C13_Witness ==
    /\ Returned("start")
    /\ prevCall = NoCall
    /\ lastCall.period # 0
    /\ Len(reported) = 3
    /\ CC0 = lastCall.period
    /\ running

C15_MainKeepsTimerRunning ==
    /\ [](InLoop => /\ running
                    /\ CC0 = MainPeriod
                    /\ "COMPARE0" \in INTEN
                    /\ nvic_enabled
                    /\ lastCall = [op |-> "start", period |-> MainPeriod]
                    /\ prevCall = NoCall)
    /\ [][InLoop => InLoop']_vars

\* The main loop sleeps after its timer, started from a stopped state with
\* the interrupt disabled, has had MaxEvents events handled.
C15_Witness ==
    /\ pc = "main_WFE1"
    /\ ~event_reg
    /\ ~entry.running
    /\ ~entry.INTEN0
    /\ Len(reported) = MaxEvents
    /\ running
    /\ CC0 = MainPeriod

\* C16: start validates nothing and has no error outcome: start(0, h)
\* writes 0 to CC[0], enables the compare interrupt and the line and leaves
\* the timer running with the fixed configuration, as for any other period.
C16_StartAcceptsZero ==
    (Returned("start") /\ lastCall.period = 0)
        => /\ CC0 = 0
           /\ "COMPARE0" \in INTEN
           /\ nvic_enabled
           /\ running
           /\ MODE = "Timer" /\ PRESCALER = 4 /\ BITMODE = "32Bit"

\* start(0, h) has returned, from a state in which CC[0] was not 0, the
\* interrupt was disabled and the timer stopped.
C16_Witness ==
    /\ Returned("start")
    /\ lastCall.period = 0
    /\ entry.CC0 # 0
    /\ ~entry.INTEN0
    /\ ~entry.running
    /\ CC0 = 0
    /\ "COMPARE0" \in INTEN
    /\ running

\* The statements of start that follow the stop and clear tasks.
C17_AfterStopAndClear ==
    {"start_MODE", "start_PRESCALER", "start_BITMODE", "start_CC0",
     "start_INTENSET", "start_NVIC_EnableIRQ", "start_TASKS_START"}

\* C17: within start the timer is stopped and its count cleared before any
\* configuration write, and it is started by the last statement only, after
\* the compare interrupt and the controller line are enabled: it is never
\* running while mode, prescaler, bit-width or CC[0] are written.
C17_StartConfiguresStoppedTimer ==
    /\ [](pc \in C17_AfterStopAndClear => (~running /\ counter = 0))
    /\ [](pc = "start_TASKS_START"
            => ("COMPARE0" \in INTEN /\ nvic_enabled /\ CC0 = period))
    /\ [][ (~running /\ running') => (pc = "start_TASKS_START" /\ pc' = ret)
       ]_vars

\* start, called on a running timer, is about to write CC[0] and the timer
\* is stopped.
C17_Witness ==
    /\ pc = "start_CC0"
    /\ entry.running
    /\ entry.CC0 # period
    /\ ~running
    /\ counter = 0

====
